---- MODULE Spec2Model ----
(***************************************************************************)
(* Smith-Waterman local alignment (smith_waterman.py) and its scoring      *)
(* scheme (scoring_scheme.py).                                             *)
(*                                                                         *)
(* Strings are sequences of one-character strings.  Scores are integers    *)
(* (the claims checked here are about integer-valued parameters; numpy     *)
(* floats are exact on them).  Python's None is the empty tuple and a set  *)
(* attribute x is the one-element tuple <<x>>.                             *)
(***************************************************************************)
EXTENDS Integers, Sequences, FiniteSets, TLC

VARIABLES
    pc,               \* position of the running call
    scoring_scheme,   \* the ScoringScheme object (its six attributes)
    sequence1,        \* first argument of smith_waterman / ScoringScheme.score
    sequence2,        \* second argument of smith_waterman / ScoringScheme.score
    A,                \* the dynamic programming matrix (filled cells only)
    i,                \* row of the next cell of the sweep
    j,                \* column of the next cell of the sweep
    best_score,
    best_locations,
    partials,         \* the backtrace work-list
    alignments,       \* the list smith_waterman returns
    result,           \* value returned by ScoringScheme.score
    file,             \* lines of the file load_matrix reads
    pos,              \* number of lines of file already read
    scheme_before,    \* the scheme as it was when load_matrix was called
    error             \* name of the exception that ended the call, or "none"

vars == <<pc, scoring_scheme, sequence1, sequence2, A, i, j, best_score,
          best_locations, partials, alignments, result, file, pos,
          scheme_before, error>>

alignVars == <<A, i, j, best_score, best_locations, partials, alignments>>
loadVars == <<file, pos, scheme_before>>

----------------------------------------------------------------------------
(* Bounds of the model *)

MaxLen1 == 3
MaxLen2 == 2
MaxAlignLen == 3
MaxLines == 4

----------------------------------------------------------------------------
(* Values *)

None == <<>>
Some(x) == <<x>>
Get(opt) == opt[1]

GAP == "-"
Letters == {"A", "B"}
Alphabet == Letters \cup {GAP}

Min(a, b) == IF a <= b THEN a ELSE b
Max(a, b) == IF a >= b THEN a ELSE b

SeqsUpTo(S, n) == UNION {[1..k -> S] : k \in 0..n}

\* ScoringScheme.__init__
NewScheme(match_score, mismatch_penalty, gap_penalty, gap_start_penalty) ==
    [match_score |-> match_score,
     mismatch_penalty |-> mismatch_penalty,
     gap_penalty |-> gap_penalty,
     gap_start_penalty |-> gap_start_penalty,
     index_by_symbol |-> None,
     scoring_matrix |-> None]

----------------------------------------------------------------------------
(* ScoringScheme.score *)

NoError == "none"
Ok(v) == [err |-> NoError, val |-> v]
Raise(e, v) == [err |-> e, val |-> v]

\* the start penalty of the gap in column k of seq (k is enumerate's i + 1)
GapStartCharge(scheme, seq, k) ==
    IF k > 1 /\ seq[k - 1] # GAP THEN scheme.gap_start_penalty ELSE 0

\* the score of a column of two symbols that are not gaps
PairScore(scheme, symbol1, symbol2) ==
    IF scheme.scoring_matrix # None
    THEN IF \/ <<symbol1>> \notin DOMAIN Get(scheme.index_by_symbol)
            \/ <<symbol2>> \notin DOMAIN Get(scheme.index_by_symbol)
         THEN Raise("AssertionError", 0)
         ELSE LET row == Get(scheme.index_by_symbol)[<<symbol1>>]
                  col == Get(scheme.index_by_symbol)[<<symbol2>>]
              IN  Ok(Get(scheme.scoring_matrix)[row][col])
    ELSE Ok(IF symbol1 = symbol2 THEN scheme.match_score
                                 ELSE scheme.mismatch_penalty)

RECURSIVE ScoreLoop(_, _, _, _, _)
ScoreLoop(scheme, seq1, seq2, k, score) ==
    IF k > Min(Len(seq1), Len(seq2)) THEN Ok(score)
    ELSE LET symbol1 == seq1[k]
             symbol2 == seq2[k]
         IN  IF symbol1 = GAP /\ symbol2 = GAP THEN Raise("ValueError", score)
             ELSE IF symbol1 = GAP
             THEN ScoreLoop(scheme, seq1, seq2, k + 1,
                            score + scheme.gap_penalty + GapStartCharge(scheme, seq1, k))
             ELSE IF symbol2 = GAP
             THEN ScoreLoop(scheme, seq1, seq2, k + 1,
                            score + scheme.gap_penalty + GapStartCharge(scheme, seq2, k))
             ELSE LET p == PairScore(scheme, symbol1, symbol2)
                  IN  IF p.err # NoError THEN Raise(p.err, score)
                      ELSE ScoreLoop(scheme, seq1, seq2, k + 1, score + p.val)

Score(scheme, seq1, seq2) == ScoreLoop(scheme, seq1, seq2, 1, 0)

\* ScoringScheme.__call__ on two symbols, as smith_waterman uses it
SymbolScore(scheme, symbol1, symbol2) == Score(scheme, <<symbol1>>, <<symbol2>>)

----------------------------------------------------------------------------
(* ScoringScheme.load_matrix *)

\* str.split() of a line: the maximal runs of characters that are not blanks
IsWhitespace(ch) == ch = " "

RECURSIVE SplitLoop(_, _, _, _)
SplitLoop(line, k, token, tokens) ==
    IF k > Len(line)
    THEN IF token = <<>> THEN tokens ELSE Append(tokens, token)
    ELSE IF IsWhitespace(line[k])
         THEN SplitLoop(line, k + 1, <<>>,
                        IF token = <<>> THEN tokens ELSE Append(tokens, token))
         ELSE SplitLoop(line, k + 1, Append(token, line[k]), tokens)

Split(line) == SplitLoop(line, 1, <<>>, <<>>)

DigitValue == ("0" :> 0) @@ ("1" :> 1) @@ ("2" :> 2)

RECURSIVE Digits(_, _)
Digits(token, n) ==
    IF n = 0 THEN 0 ELSE Digits(token, n - 1) * 10 + DigitValue[token[n]]

\* float() of a token made of the model's characters: an optional sign and
\* one or more digits, anything else is a ValueError
ParseFloat(token) ==
    LET signed == token # <<>> /\ Head(token) = "-"
        digits == IF signed THEN Tail(token) ELSE token
    IN  IF digits = <<>> \/ \E k \in 1..Len(digits) : digits[k] \notin DOMAIN DigitValue
        THEN Raise("ValueError", 0)
        ELSE Ok(IF signed THEN 0 - Digits(digits, Len(digits))
                          ELSE Digits(digits, Len(digits)))

\* the first character of what readline() returned for a line of the file
\* (a blank line reads as "\n")
FirstChar(line) == IF line = <<>> THEN "\n" ELSE line[1]

\* the number of lines read once the while loop has passed the comments;
\* Len(f) + 1 when readline() reached the end of the file
RECURSIVE SkipComments(_, _)
SkipComments(f, k) ==
    IF k > Len(f) THEN k
    ELSE IF FirstChar(f[k]) = "#" THEN SkipComments(f, k + 1) ELSE k

\* the dict comprehension: a symbol named twice keeps its last index
IndexOfSymbols(tokens) ==
    [t \in {tokens[k] : k \in 1..Len(tokens)} |->
        (CHOOSE k \in 1..Len(tokens) :
            tokens[k] = t /\ \A m \in 1..Len(tokens) : tokens[m] = t => m <= k) - 1]

Zeros(n) == [r \in 0..(n - 1) |-> [c \in 0..(n - 1) |-> 0]]

\* from open() to np.zeros(): [scheme, pos, err]
LoadHeaderStep(scheme, f) ==
    LET k == SkipComments(f, 1)
    IN  IF k > Len(f)
        THEN [scheme |-> scheme, pos |-> Len(f), err |-> "IndexError"]
        ELSE LET index == IndexOfSymbols(Split(f[k]))
             IN  [scheme |-> [scheme EXCEPT
                                 !.index_by_symbol = Some(index),
                                 !.scoring_matrix = Some(Zeros(Cardinality(DOMAIN index)))],
                  pos |-> k,
                  err |-> NoError]

\* the inner loop over the values of a row: [matrix, err]
RECURSIVE RowLoop(_, _, _, _)
RowLoop(matrix, r, row, k) ==
    IF k > Len(row) THEN [matrix |-> matrix, err |-> NoError]
    ELSE LET val == ParseFloat(row[k])
         IN  IF val.err # NoError THEN [matrix |-> matrix, err |-> val.err]
             ELSE IF r \notin DOMAIN matrix \/ (k - 1) \notin DOMAIN matrix[r]
             THEN [matrix |-> matrix, err |-> "IndexError"]
             ELSE RowLoop([matrix EXCEPT ![r][k - 1] = val.val], r, row, k + 1)

\* one iteration of "for line in f": [scheme, err]
LoadRowStep(scheme, line) ==
    LET row == Split(line)
    IN  IF row = <<>> THEN [scheme |-> scheme, err |-> "IndexError"]
        ELSE IF Head(row) \notin DOMAIN Get(scheme.index_by_symbol)
        THEN [scheme |-> scheme, err |-> "KeyError"]
        ELSE LET l == RowLoop(Get(scheme.scoring_matrix),
                              Get(scheme.index_by_symbol)[Head(row)], Tail(row), 1)
             IN  [scheme |-> [scheme EXCEPT !.scoring_matrix = Some(l.matrix)],
                  err |-> l.err]

RECURSIVE LoadRows(_, _, _)
LoadRows(scheme, f, k) ==
    IF k >= Len(f) THEN [scheme |-> scheme, err |-> NoError]
    ELSE LET st == LoadRowStep(scheme, f[k + 1])
         IN  IF st.err # NoError THEN st ELSE LoadRows(st.scheme, f, k + 1)

\* the whole call: the scheme it leaves and the error it raised
LoadMatrix(scheme, f) ==
    LET h == LoadHeaderStep(scheme, f)
    IN  IF h.err # NoError THEN [scheme |-> h.scheme, err |-> h.err]
        ELSE LoadRows(h.scheme, f, h.pos)

----------------------------------------------------------------------------
(* smith_waterman: the matrix fill *)

Cell(r, c) == <<r, c>>

\* A after "A[0, :] = 0.0; A[:, 0] = 0.0": np.empty leaves the other cells unset
InitialMatrix(seq1, seq2) ==
    [cell \in {Cell(r, c) : r \in 0..Len(seq1), c \in 0..Len(seq2)}
            \ {Cell(r, c) : r \in 1..Len(seq1), c \in 1..Len(seq2)} |-> 0]

Max4(a, b, c, d) == Max(Max(a, b), Max(c, d))

\* CellValue with the gap penalty subtracted instead of added
CellValue_GapSubtracted(Am, scheme, seq1, seq2, r, c) ==
    LET s == SymbolScore(scheme, seq1[r], seq2[c])
    IN  IF s.err # NoError THEN Raise(s.err, 0)
        ELSE Ok(Max4(Am[Cell(r - 1, c - 1)] + s.val,
                     Am[Cell(r - 1, c)] - scheme.gap_penalty,
                     Am[Cell(r, c - 1)] - scheme.gap_penalty,
                     0))

\* the value the recurrence gives cell (r, c), or the error score() raised
CellValue(Am, scheme, seq1, seq2, r, c) ==
    LET s == SymbolScore(scheme, seq1[r], seq2[c])
    IN  IF s.err # NoError THEN Raise(s.err, 0)
        ELSE Ok(Max4(Am[Cell(r - 1, c - 1)] + s.val,
                     Am[Cell(r - 1, c)] + scheme.gap_penalty,
                     Am[Cell(r, c - 1)] + scheme.gap_penalty,
                     0))

\* UpdateBest that keeps the earlier locations on a strict improvement
UpdateBest_NoReset(best, locations, v, cell) ==
    IF v > best THEN [best_score |-> v, best_locations |-> Append(locations, cell)]
    ELSE IF v = best
         THEN [best_score |-> best, best_locations |-> Append(locations, cell)]
         ELSE [best_score |-> best, best_locations |-> locations]

\* the two ifs that follow the assignment of A[i, j]
UpdateBest(best, locations, v, cell) ==
    IF v > best THEN [best_score |-> v, best_locations |-> <<cell>>]
    ELSE IF v = best
         THEN [best_score |-> best, best_locations |-> Append(locations, cell)]
         ELSE [best_score |-> best, best_locations |-> locations]

\* the sweep is over when range(1, max_i) or range(1, max_j) has no cell left
SweepDone(seq1, seq2, r) == r > Len(seq1) \/ Len(seq2) = 0

NextRow(seq2, r, c) == IF c < Len(seq2) THEN r ELSE r + 1
NextCol(seq2, c) == IF c < Len(seq2) THEN c + 1 ELSE 1

\* one iteration of the inner loop, on a record of the loop's state
FillStep(scheme, seq1, seq2, st) ==
    LET v == CellValue(st.A, scheme, seq1, seq2, st.i, st.j)
        b == UpdateBest(st.best_score, st.best_locations, v.val, Cell(st.i, st.j))
    IN  IF v.err # NoError THEN [st EXCEPT !.err = v.err]
        ELSE [A |-> (Cell(st.i, st.j) :> v.val) @@ st.A,
              i |-> NextRow(seq2, st.i, st.j),
              j |-> NextCol(seq2, st.j),
              best_score |-> b.best_score,
              best_locations |-> b.best_locations,
              err |-> NoError]

FillStart(seq1, seq2) ==
    [A |-> InitialMatrix(seq1, seq2), i |-> 1, j |-> 1,
     best_score |-> 0, best_locations |-> <<>>, err |-> NoError]

\* the whole double loop
RECURSIVE Sweep(_, _, _, _)
Sweep(scheme, seq1, seq2, st) ==
    IF st.err # NoError \/ SweepDone(seq1, seq2, st.i) THEN st
    ELSE Sweep(scheme, seq1, seq2, FillStep(scheme, seq1, seq2, st))

----------------------------------------------------------------------------
(* smith_waterman: the backtrace *)

Partial(alignment1, alignment2, r, c) ==
    [alignment1 |-> alignment1, alignment2 |-> alignment2, i |-> r, j |-> c]

InitialPartials(locations) ==
    [k \in 1..Len(locations) |-> Partial(<<>>, <<>>, locations[k][1], locations[k][2])]

\* Branches that appends the symbols to the partial's strings
Branches_Appending(Am, scheme, seq1, seq2, p) ==
    LET v == Am[Cell(p.i, p.j)]
        s == SymbolScore(scheme, seq1[p.i], seq2[p.j])
        diagonal == IF v = Am[Cell(p.i - 1, p.j - 1)] + s.val
                    THEN <<Partial(Append(p.alignment1, seq1[p.i]),
                                   Append(p.alignment2, seq2[p.j]), p.i - 1, p.j - 1)>>
                    ELSE <<>>
        up ==       IF v = Am[Cell(p.i - 1, p.j)] + scheme.gap_penalty
                    THEN <<Partial(Append(p.alignment1, seq1[p.i]),
                                   Append(p.alignment2, GAP), p.i - 1, p.j)>>
                    ELSE <<>>
        left ==     IF v = Am[Cell(p.i, p.j - 1)] + scheme.gap_penalty
                    THEN <<Partial(Append(p.alignment1, GAP),
                                   Append(p.alignment2, seq2[p.j]), p.i, p.j - 1)>>
                    ELSE <<>>
    IN  diagonal \o up \o left

\* Branches that follows only the first recurrence term that reproduces the value
Branches_FirstTieOnly(Am, scheme, seq1, seq2, p) ==
    LET v == Am[Cell(p.i, p.j)]
        s == SymbolScore(scheme, seq1[p.i], seq2[p.j])
    IN  IF v = Am[Cell(p.i - 1, p.j - 1)] + s.val
        THEN <<Partial(<<seq1[p.i]>> \o p.alignment1,
                       <<seq2[p.j]>> \o p.alignment2, p.i - 1, p.j - 1)>>
        ELSE IF v = Am[Cell(p.i - 1, p.j)] + scheme.gap_penalty
        THEN <<Partial(<<seq1[p.i]>> \o p.alignment1,
                       <<GAP>> \o p.alignment2, p.i - 1, p.j)>>
        ELSE IF v = Am[Cell(p.i, p.j - 1)] + scheme.gap_penalty
        THEN <<Partial(<<GAP>> \o p.alignment1,
                       <<seq2[p.j]>> \o p.alignment2, p.i, p.j - 1)>>
        ELSE <<>>

\* Branches that follows the up term whenever the cell above is not smaller
Branches_UpNotTied(Am, scheme, seq1, seq2, p) ==
    LET v == Am[Cell(p.i, p.j)]
        s == SymbolScore(scheme, seq1[p.i], seq2[p.j])
        diagonal == IF v = Am[Cell(p.i - 1, p.j - 1)] + s.val
                    THEN <<Partial(<<seq1[p.i]>> \o p.alignment1,
                                   <<seq2[p.j]>> \o p.alignment2, p.i - 1, p.j - 1)>>
                    ELSE <<>>
        up ==       IF v <= Am[Cell(p.i - 1, p.j)] + scheme.gap_penalty
                         \/ v <= Am[Cell(p.i - 1, p.j)]
                    THEN <<Partial(<<seq1[p.i]>> \o p.alignment1,
                                   <<GAP>> \o p.alignment2, p.i - 1, p.j)>>
                    ELSE <<>>
        left ==     IF v = Am[Cell(p.i, p.j - 1)] + scheme.gap_penalty
                    THEN <<Partial(<<GAP>> \o p.alignment1,
                                   <<seq2[p.j]>> \o p.alignment2, p.i, p.j - 1)>>
                    ELSE <<>>
    IN  diagonal \o up \o left

\* the three ifs of the else branch: the partials one partial is replaced by
Branches(Am, scheme, seq1, seq2, p) ==
    LET v == Am[Cell(p.i, p.j)]
        s == SymbolScore(scheme, seq1[p.i], seq2[p.j])
        diagonal == IF v = Am[Cell(p.i - 1, p.j - 1)] + s.val
                    THEN <<Partial(<<seq1[p.i]>> \o p.alignment1,
                                   <<seq2[p.j]>> \o p.alignment2, p.i - 1, p.j - 1)>>
                    ELSE <<>>
        up ==       IF v = Am[Cell(p.i - 1, p.j)] + scheme.gap_penalty
                    THEN <<Partial(<<seq1[p.i]>> \o p.alignment1,
                                   <<GAP>> \o p.alignment2, p.i - 1, p.j)>>
                    ELSE <<>>
        left ==     IF v = Am[Cell(p.i, p.j - 1)] + scheme.gap_penalty
                    THEN <<Partial(<<GAP>> \o p.alignment1,
                                   <<seq2[p.j]>> \o p.alignment2, p.i, p.j - 1)>>
                    ELSE <<>>
    IN  diagonal \o up \o left

\* the for loop over partials: what it appends to alignments and to next_partials
RECURSIVE Level(_, _, _, _, _, _, _, _)
Level(Am, scheme, seq1, seq2, ps, k, emitted, next_partials) ==
    IF k > Len(ps) THEN [emitted |-> emitted, next_partials |-> next_partials]
    ELSE IF Am[Cell(ps[k].i, ps[k].j)] = 0
         THEN Level(Am, scheme, seq1, seq2, ps, k + 1,
                    Append(emitted, <<ps[k].alignment1, ps[k].alignment2>>),
                    next_partials)
         ELSE Level(Am, scheme, seq1, seq2, ps, k + 1, emitted,
                    next_partials \o Branches(Am, scheme, seq1, seq2, ps[k]))

----------------------------------------------------------------------------
(* smith_waterman as a state machine *)

MatchScores == {1}
MismatchPenalties == {-1, 0}
GapPenalties == {-2, -1, 0, 1}
GapStartPenalties == {0, -1}

CommentLine == <<"#", "A">>
HeaderLine == <<"A", " ", "B">>
RowA == <<"A", " ", "2", " ", "-", "1">>
RowB == <<"B", " ", "0", " ", "1">>
BadNumberRow == <<"A", " ", "1", " ", "x">>
UnknownSymbolRow == <<"C", " ", "1">>
BlankLine == <<>>

\* the scheme with a substitution matrix over the letters loaded
LetterScheme(g, gs) == LoadMatrix(NewScheme(1, -1, g, gs), <<HeaderLine, RowA, RowB>>).scheme

Schemes ==
    {NewScheme(m, x, g, gs) : m \in MatchScores, x \in MismatchPenalties,
                              g \in GapPenalties, gs \in GapStartPenalties}
    \cup
    {LetterScheme(g, gs) : g \in GapPenalties, gs \in GapStartPenalties}

Idle == /\ result = None
        /\ file = <<>>
        /\ pos = 0
        /\ scheme_before = None
        /\ error = NoError

InitAlign ==
    /\ pc = "fill"
    /\ scoring_scheme \in Schemes
    /\ sequence1 \in SeqsUpTo(Alphabet, MaxLen1)
    /\ sequence2 \in SeqsUpTo(Alphabet, MaxLen2)
    /\ A = InitialMatrix(sequence1, sequence2)
    /\ i = 1
    /\ j = 1
    /\ best_score = 0
    /\ best_locations = <<>>
    /\ partials = <<>>
    /\ alignments = <<>>
    /\ Idle

FillCell ==
    /\ pc = "fill"
    /\ ~SweepDone(sequence1, sequence2, i)
    /\ LET st == FillStep(scoring_scheme, sequence1, sequence2,
                          [A |-> A, i |-> i, j |-> j, best_score |-> best_score,
                           best_locations |-> best_locations, err |-> NoError])
       IN  /\ A' = st.A
           /\ i' = st.i
           /\ j' = st.j
           /\ best_score' = st.best_score
           /\ best_locations' = st.best_locations
           /\ error' = st.err
           /\ pc' = IF st.err # NoError THEN "raised" ELSE "fill"
    /\ UNCHANGED <<scoring_scheme, sequence1, sequence2, partials, alignments,
                   result, file, pos, scheme_before>>

StartBacktrace ==
    /\ pc = "fill"
    /\ SweepDone(sequence1, sequence2, i)
    /\ alignments' = <<>>
    /\ partials' = InitialPartials(best_locations)
    /\ pc' = "backtrace"
    /\ UNCHANGED <<scoring_scheme, sequence1, sequence2, A, i, j, best_score,
                   best_locations, result, file, pos, scheme_before, error>>

BacktraceLevel ==
    /\ pc = "backtrace"
    /\ Len(partials) > 0
    /\ LET l == Level(A, scoring_scheme, sequence1, sequence2, partials, 1, <<>>, <<>>)
       IN  /\ alignments' = alignments \o l.emitted
           /\ partials' = l.next_partials
    /\ UNCHANGED <<pc, scoring_scheme, sequence1, sequence2, A, i, j, best_score,
                   best_locations, result, file, pos, scheme_before, error>>

Return ==
    /\ pc = "backtrace"
    /\ Len(partials) = 0
    /\ pc' = "done"
    /\ UNCHANGED <<scoring_scheme, sequence1, sequence2, alignVars, result,
                   loadVars, error>>

NextAlign == FillCell \/ StartBacktrace \/ BacktraceLevel \/ Return

SpecAlign == InitAlign /\ [][NextAlign]_vars

----------------------------------------------------------------------------
(* What the claims about smith_waterman speak of *)

Range(seq) == {seq[k] : k \in 1..Len(seq)}

NoGapSymbol(seq) == GAP \notin Range(seq)

IsLetter(x) == x # GAP

\* a string with its gap symbols removed
Degap(seq) == SelectSeq(seq, IsLetter)

IsSubstring(sub, seq) ==
    \E start \in 0..Len(seq) :
        /\ start + Len(sub) <= Len(seq)
        /\ SubSeq(seq, start + 1, start + Len(sub)) = sub

Returned == pc = "done"

SweepEnded ==
    \/ pc \in {"backtrace", "done"}
    \/ pc = "fill" /\ SweepDone(sequence1, sequence2, i)

\* the score of an alignment column by column: the pair score of a column of
\* two letters, gap_penalty for a column with a gap
RECURSIVE ColumnScore(_, _, _, _)
ColumnScore(scheme, alignment1, alignment2, n) ==
    IF n = 0 THEN 0
    ELSE ColumnScore(scheme, alignment1, alignment2, n - 1)
         + (IF alignment1[n] = GAP \/ alignment2[n] = GAP
            THEN scheme.gap_penalty
            ELSE PairScore(scheme, alignment1[n], alignment2[n]).val)

\* every gapped alignment of seq1[r0+1 .. r1] with seq2[c0+1 .. c1]
RECURSIVE AlignmentsBetween(_, _, _, _, _, _)
AlignmentsBetween(seq1, seq2, r0, c0, r1, c1) ==
    IF r1 = r0 /\ c1 = c0 THEN {<<<<>>, <<>>>>}
    ELSE (IF r1 > r0 /\ c1 > c0
          THEN {<<Append(x[1], seq1[r1]), Append(x[2], seq2[c1])>> :
                    x \in AlignmentsBetween(seq1, seq2, r0, c0, r1 - 1, c1 - 1)}
          ELSE {})
         \cup
         (IF r1 > r0
          THEN {<<Append(x[1], seq1[r1]), Append(x[2], GAP)>> :
                    x \in AlignmentsBetween(seq1, seq2, r0, c0, r1 - 1, c1)}
          ELSE {})
         \cup
         (IF c1 > c0
          THEN {<<Append(x[1], GAP), Append(x[2], seq2[c1])>> :
                    x \in AlignmentsBetween(seq1, seq2, r0, c0, r1, c1 - 1)}
          ELSE {})

\* every gapped alignment of a substring of seq1 with a substring of seq2
LocalAlignments(seq1, seq2) ==
    UNION {AlignmentsBetween(seq1, seq2, r0, c0, r1, c1) :
               <<r0, c0, r1, c1>> \in
                   {q \in (0..Len(seq1)) \X (0..Len(seq2)) \X (0..Len(seq1)) \X (0..Len(seq2)) :
                        q[1] <= q[3] /\ q[2] <= q[4]}}

IsDefaultScheme(scheme) == scheme = NewScheme(1, -1, -1, 0)

----------------------------------------------------------------------------
(* C1: two nonempty sequences that share no symbol, aligned under the      *)
(* default scheme, give best_score 0 and no alignment at all.              *)
C1_NoSharedSymbolNoAlignment ==
    ( /\ Returned
      /\ IsDefaultScheme(scoring_scheme)
      /\ NoGapSymbol(sequence1)
      /\ NoGapSymbol(sequence2)
      /\ Len(sequence1) > 0
      /\ Len(sequence2) > 0
      /\ Range(sequence1) \cap Range(sequence2) = {} )
    => (best_score = 0 /\ alignments = <<>>)

(* C3: no alignment pair appears more than once in the returned list       *)
(* (stated for sequences without the gap symbol and a positive best_score, *)
(* where the list does not depend on what C1 is about).                    *)
C3_NoDuplicateAlignment ==
    (Returned /\ NoGapSymbol(sequence1) /\ NoGapSymbol(sequence2) /\ best_score > 0) =>
        \A a, b \in 1..Len(alignments) : a # b => alignments[a] # alignments[b]

(* C4: for sequences without the gap symbol, every returned alignment and  *)
(* every partial path of the work-list, with the gap symbols removed, is   *)
(* a contiguous substring of its sequence; a partial's strings are the     *)
(* stretch from its cell up to a best cell.                                *)
C4_SubstringInvariant ==
    (NoGapSymbol(sequence1) /\ NoGapSymbol(sequence2)) =>
        /\ \A k \in 1..Len(alignments) :
              /\ IsSubstring(Degap(alignments[k][1]), sequence1)
              /\ IsSubstring(Degap(alignments[k][2]), sequence2)
        /\ \A k \in 1..Len(partials) :
              LET p == partials[k]
                  n1 == Len(Degap(p.alignment1))
                  n2 == Len(Degap(p.alignment2))
              IN  /\ p.i + n1 <= Len(sequence1)
                  /\ p.j + n2 <= Len(sequence2)
                  /\ Degap(p.alignment1) = SubSeq(sequence1, p.i + 1, p.i + n1)
                  /\ Degap(p.alignment2) = SubSeq(sequence2, p.j + 1, p.j + n2)
                  /\ Cell(p.i + n1, p.j + n2) \in Range(best_locations)

C4_Witness ==
    /\ pc = "backtrace"
    /\ NoGapSymbol(sequence1)
    /\ NoGapSymbol(sequence2)
    /\ alignments # <<>>
    /\ \E k \in 1..Len(partials) :
          /\ GAP \in Range(partials[k].alignment2)
          /\ Len(Degap(partials[k].alignment1)) >= 2

(* C5 as stated: with gap_start_penalty = 0 every returned alignment has   *)
(* strings of equal length and score() gives it exactly best_score.        *)
C5_RescoreAnySequences ==
    (Returned /\ scoring_scheme.gap_start_penalty = 0) =>
        \A k \in 1..Len(alignments) :
            /\ Len(alignments[k][1]) = Len(alignments[k][2])
            /\ Score(scoring_scheme, alignments[k][1], alignments[k][2]) = Ok(best_score)

(* C5 amended: the same, for sequences that do not contain the gap symbol. *)
C5_RescoreGapFreeSequences ==
    ( /\ Returned
      /\ scoring_scheme.gap_start_penalty = 0
      /\ NoGapSymbol(sequence1)
      /\ NoGapSymbol(sequence2) ) =>
        \A k \in 1..Len(alignments) :
            /\ Len(alignments[k][1]) = Len(alignments[k][2])
            /\ Score(scoring_scheme, alignments[k][1], alignments[k][2]) = Ok(best_score)

C5_Witness ==
    /\ Returned
    /\ scoring_scheme.gap_start_penalty = 0
    /\ scoring_scheme.gap_penalty < 0
    /\ NoGapSymbol(sequence1)
    /\ NoGapSymbol(sequence2)
    /\ best_score >= 2
    /\ \E k \in 1..Len(alignments) : GAP \in Range(alignments[k][2])

OptimalAlignments ==
    {x \in LocalAlignments(sequence1, sequence2) :
         ColumnScore(scoring_scheme, x[1], x[2], Len(x[1])) = best_score}

(* C2 as stated: when best_score > 0, every gapped alignment of a          *)
(* substring of sequence1 with a substring of sequence2 whose column score *)
(* equals best_score is among the returned alignments.                     *)
C2_EveryOptimalAlignmentReturned ==
    (Returned /\ NoGapSymbol(sequence1) /\ NoGapSymbol(sequence2) /\ best_score > 0) =>
        \A x \in OptimalAlignments : x \in Range(alignments)

(* C2 amended: when the gap penalty is not positive, every such alignment  *)
(* whose nonempty prefixes all score strictly more than 0 is among the     *)
(* returned alignments.                                                    *)
C2_EveryPositivePrefixOptimalReturned ==
    ( /\ Returned
      /\ NoGapSymbol(sequence1)
      /\ NoGapSymbol(sequence2)
      /\ best_score > 0
      /\ scoring_scheme.gap_penalty <= 0 ) =>
        \A x \in OptimalAlignments :
            (\A n \in 1..Len(x[1]) : ColumnScore(scoring_scheme, x[1], x[2], n) > 0)
                => x \in Range(alignments)

C2_Witness ==
    /\ Returned
    /\ NoGapSymbol(sequence1)
    /\ NoGapSymbol(sequence2)
    /\ best_score > 0
    /\ scoring_scheme.gap_penalty <= 0
    /\ \E x, y \in OptimalAlignments :
          /\ x # y
          /\ x[1] = y[1]
          /\ GAP \in Range(x[2])
          /\ \A n \in 1..Len(x[1]) : ColumnScore(scoring_scheme, x[1], x[2], n) > 0
          /\ \A n \in 1..Len(y[1]) : ColumnScore(scoring_scheme, y[1], y[2], n) > 0

BestScoreWithGapPenalty(g) ==
    Sweep([scoring_scheme EXCEPT !.gap_penalty = g], sequence1, sequence2,
          FillStart(sequence1, sequence2)).best_score

(* C8: with the sequences and the other parameters fixed, of two gap       *)
(* penalties that are not positive the one closer to 0 never gives a       *)
(* smaller best_score.                                                     *)
C8_GapPenaltyMonotone ==
    (Returned /\ scoring_scheme.gap_penalty <= 0) =>
        \A g \in {x \in GapPenalties : x <= 0} :
            /\ g >= scoring_scheme.gap_penalty => BestScoreWithGapPenalty(g) >= best_score
            /\ g <= scoring_scheme.gap_penalty => BestScoreWithGapPenalty(g) <= best_score

C8_Witness ==
    /\ Returned
    /\ \E g \in {x \in GapPenalties : x <= 0} :
          /\ g > scoring_scheme.gap_penalty
          /\ BestScoreWithGapPenalty(g) > best_score

VisitedCells == {cell \in DOMAIN A : cell[1] >= 1 /\ cell[2] >= 1}

C10_Cells ==
    \A cell \in DOMAIN A :
        /\ A[cell] >= 0
        /\ (cell[1] = 0 \/ cell[2] = 0) => A[cell] = 0

C10_AtEnd ==
    SweepEnded =>
        /\ \A cell \in DOMAIN A : A[cell] <= best_score
        /\ \E cell \in DOMAIN A : A[cell] = best_score
        /\ Range(best_locations) = {cell \in VisitedCells : A[cell] = best_score}
        /\ \A a, b \in 1..Len(best_locations) :
              a # b => best_locations[a] # best_locations[b]

(* C10: during the fill best_score never decreases, every cell is >= 0     *)
(* with row 0 and column 0 equal to 0, and when the sweep ends best_score  *)
(* is the maximum of A and best_locations holds, each once, exactly the    *)
(* visited cells whose value is that maximum.                              *)
C10_BestCellTracking ==
    /\ [](C10_Cells /\ C10_AtEnd)
    /\ [][best_score' >= best_score]_vars

C10_Witness ==
    /\ SweepEnded
    /\ best_score >= 2
    /\ Len(best_locations) >= 2
    /\ \E cell \in VisitedCells : A[cell] = 0
    /\ \E cell \in VisitedCells : A[cell] > 0 /\ A[cell] < best_score

----------------------------------------------------------------------------
(* ScoringScheme.score on two aligned strings, as a state machine *)

AlignIdle ==
    /\ A = <<>>
    /\ i = 0
    /\ j = 0
    /\ best_score = 0
    /\ best_locations = <<>>
    /\ partials = <<>>
    /\ alignments = <<>>

InitScore ==
    /\ pc = "score"
    /\ scoring_scheme \in Schemes
    /\ sequence1 \in SeqsUpTo(Alphabet, MaxAlignLen)
    /\ sequence2 \in SeqsUpTo(Alphabet, MaxAlignLen)
    /\ AlignIdle
    /\ Idle

ScoreReturn ==
    /\ pc = "score"
    /\ LET s == Score(scoring_scheme, sequence1, sequence2)
       IN  /\ s.err = NoError
           /\ result' = Some(s.val)
    /\ pc' = "scored"
    /\ UNCHANGED <<scoring_scheme, sequence1, sequence2, alignVars, loadVars, error>>

ScoreRaise ==
    /\ pc = "score"
    /\ LET s == Score(scoring_scheme, sequence1, sequence2)
       IN  /\ s.err # NoError
           /\ error' = s.err
    /\ pc' = "raised"
    /\ UNCHANGED <<scoring_scheme, sequence1, sequence2, alignVars, loadVars, result>>

NextScore == ScoreReturn \/ ScoreRaise

SpecScore == InitScore /\ [][NextScore]_vars

\* the number of maximal runs of gap symbols in a string
GapRuns(seq) ==
    Cardinality({k \in 1..Len(seq) : seq[k] = GAP /\ (k = 1 \/ seq[k - 1] # GAP)})

(* C6: score() of two aligned strings without a double-gap column is the   *)
(* sum of the pair scores of the columns without a gap, plus gap_penalty   *)
(* per gap column, plus gap_start_penalty once per maximal run of gaps in  *)
(* either string.                                                          *)
C6_StartPenaltyOncePerRun ==
    (pc = "scored" /\ Len(sequence1) = Len(sequence2)) =>
        Get(result) = ColumnScore(scoring_scheme, sequence1, sequence2, Len(sequence1))
                      + scoring_scheme.gap_start_penalty
                        * (GapRuns(sequence1) + GapRuns(sequence2))

----------------------------------------------------------------------------
(* ScoringScheme.load_matrix as a state machine *)

Lines == {CommentLine, HeaderLine, RowA, RowB, BadNumberRow, UnknownSymbolRow, BlankLine}

InitLoad ==
    /\ pc = "load_header"
    /\ scoring_scheme \in {NewScheme(1, -1, -1, 0), LetterScheme(-1, 0)}
    /\ file \in SeqsUpTo(Lines, MaxLines)
    /\ pos = 0
    /\ scheme_before = Some(scoring_scheme)
    /\ sequence1 = <<>>
    /\ sequence2 = <<>>
    /\ result = None
    /\ error = NoError
    /\ AlignIdle

LoadHeader ==
    /\ pc = "load_header"
    /\ LET h == LoadHeaderStep(scoring_scheme, file)
       IN  /\ scoring_scheme' = h.scheme
           /\ pos' = h.pos
           /\ error' = h.err
           /\ pc' = IF h.err # NoError THEN "raised" ELSE "load_rows"
    /\ UNCHANGED <<sequence1, sequence2, alignVars, result, file, scheme_before>>

LoadRow ==
    /\ pc = "load_rows"
    /\ pos < Len(file)
    /\ LET st == LoadRowStep(scoring_scheme, file[pos + 1])
       IN  /\ scoring_scheme' = st.scheme
           /\ error' = st.err
           /\ pc' = IF st.err # NoError THEN "raised" ELSE "load_rows"
    /\ pos' = pos + 1
    /\ UNCHANGED <<sequence1, sequence2, alignVars, result, file, scheme_before>>

LoadReturn ==
    /\ pc = "load_rows"
    /\ pos >= Len(file)
    /\ pc' = "loaded"
    /\ UNCHANGED <<scoring_scheme, sequence1, sequence2, alignVars, result,
                   loadVars, error>>

NextLoad == LoadHeader \/ LoadRow \/ LoadReturn

SpecLoad == InitLoad /\ [][NextLoad]_vars

\* the file has no header line at all
MissingHeader(f) == SkipComments(f, 1) > Len(f)

\* the header of the file names letters
AlphabetHeader(f) ==
    /\ ~MissingHeader(f)
    /\ Split(f[SkipComments(f, 1)]) # <<>>
    /\ \A t \in Range(Split(f[SkipComments(f, 1)])) : Len(t) = 1 /\ t[1] \in Letters

(* C7: a load_matrix that fails (on a field that is no number, on a row    *)
(* whose symbol the header does not name, or on a missing header) leaves   *)
(* index_by_symbol and scoring_matrix as they were before the call.        *)
C7_FailedLoadChangesNothing ==
    ( /\ pc = "raised"
      /\ \/ MissingHeader(file)
         \/ AlphabetHeader(file) /\ error \in {"ValueError", "KeyError"} ) =>
        /\ scoring_scheme.index_by_symbol = Get(scheme_before).index_by_symbol
        /\ scoring_scheme.scoring_matrix = Get(scheme_before).scoring_matrix

RECURSIVE StripBlankLines(_)
StripBlankLines(f) ==
    IF f # <<>> /\ f[Len(f)] = BlankLine
    THEN StripBlankLines(SubSeq(f, 1, Len(f) - 1))
    ELSE f

(* C9: loading a source of comment lines, a header and rows that loads     *)
(* without error, followed by one or more blank lines, succeeds and gives  *)
(* the same index_by_symbol and scoring_matrix as loading it without the   *)
(* blank lines.                                                            *)
C9_TrailingBlankLinesIgnored ==
    LET base == StripBlankLines(file)
        expected == LoadMatrix(Get(scheme_before), base)
    IN  ( /\ pc \in {"loaded", "raised"}
          /\ base # file
          /\ AlphabetHeader(base)
          /\ expected.err = NoError )
        => /\ pc = "loaded"
           /\ scoring_scheme.index_by_symbol = expected.scheme.index_by_symbol
           /\ scoring_scheme.scoring_matrix = expected.scheme.scoring_matrix

====
